---- MODULE Spec2Model ----
(***************************************************************************)
(* Model of the Lua chunk extractor of dcs-lua-analyzer                    *)
(* (src/lua_embedder.py, chunk_lua_file and its helpers).                  *)
(*                                                                         *)
(* Strings are sequences of code points, byte buffers are sequences of     *)
(* byte values.  The syntax tree is the parser's output and therefore an   *)
(* input of the extractor: Init draws it, together with the source bytes,  *)
(* from a bounded set of files built from the node templates below.        *)
(***************************************************************************)
EXTENDS Integers, Sequences, FiniteSets, TLC

\* one call of chunk_lua_file and its caller
VARIABLES file_path, source_bytes, root_node, chunks, child_idx, pc, ret

\* store_chunks: the position of its loop and the rows committed so far
VARIABLES store_idx, rows

\* several calls of chunk_lua_file side by side, and the files they read
VARIABLES inv, disk

\* the surrounding programs, each with its locals in one record: the loop of
\* process_lua_files (plf), the chat proxy of openwebui_middleware.py (mw)
\* and batch_process.py (bp)
VARIABLES plf, mw, bp

vars == <<file_path, source_bytes, root_node, chunks, child_idx, pc, ret,
          store_idx, rows, inv, disk, plf, mw, bp>>

\* what a step of the single call leaves alone
storeVars == <<store_idx, rows>>
callsVars == <<inv, disk>>
toolVars == <<plf, mw, bp>>

(***************************************************************************)
(* Bounds of the model.                                                    *)
(***************************************************************************)
MaxChildren == 2

\* calls of chunk_lua_file running side by side
NumInvocations == 2

\* messages of one chat request
MaxMessages == 3

\* files of one batch run
MaxBatchFiles == 3

(***************************************************************************)
(* Python values.                                                          *)
(***************************************************************************)
\* An Optional[int]: None is the empty tuple, an integer n is <<n>>.
None == <<>>
Some(x) == <<x>>

\* the replacement character U+FFFD
ReplacementChar == 65533

(***************************************************************************)
(* bytes.decode('utf-8', errors=...) on buffers whose bytes are below      *)
(* 0xE0: one-byte (ASCII) and two-byte forms; a lead byte 0xC2..0xDF       *)
(* needs one continuation byte 0x80..0xBF, every other byte >= 0x80 is     *)
(* malformed where it stands.                                              *)
(***************************************************************************)
IsAscii(b) == b \in 0..127
IsLead2(b) == b \in 194..223
IsCont(b) == b \in 128..191

RECURSIVE ValidUtf8(_)
ValidUtf8(bytes) ==
    IF bytes = <<>> THEN TRUE
    ELSE IF IsAscii(Head(bytes)) THEN ValidUtf8(Tail(bytes))
    ELSE IF IsLead2(Head(bytes)) /\ Len(bytes) >= 2 /\ IsCont(bytes[2])
         THEN ValidUtf8(Tail(Tail(bytes)))
    ELSE FALSE

\* errors='replace': every malformed byte yields U+FFFD and decoding goes on
\* with the next byte
RECURSIVE DecodeReplace(_)
DecodeReplace(bytes) ==
    IF bytes = <<>> THEN <<>>
    ELSE IF IsAscii(Head(bytes)) THEN <<Head(bytes)>> \o DecodeReplace(Tail(bytes))
    ELSE IF IsLead2(Head(bytes)) /\ Len(bytes) >= 2 /\ IsCont(bytes[2])
         THEN <<(Head(bytes) - 192) * 64 + (bytes[2] - 128)>>
              \o DecodeReplace(Tail(Tail(bytes)))
    ELSE <<ReplacementChar>> \o DecodeReplace(Tail(bytes))

\* errors='strict' (the default): raises UnicodeDecodeError on malformed input
DecodeStrict(bytes) ==
    IF ValidUtf8(bytes)
    THEN [raised |-> FALSE, value |-> DecodeReplace(bytes)]
    ELSE [raised |-> TRUE, value |-> <<>>]

(***************************************************************************)
(* str.strip(): removes leading and trailing characters c with             *)
(* c.isspace(); below U+0800 these are the code points listed here.        *)
(***************************************************************************)
IsSpace(c) == c \in (9..13) \cup (28..32) \cup {133, 160}

RECURSIVE LStrip(_)
LStrip(s) == IF s = <<>> \/ ~IsSpace(Head(s)) THEN s ELSE LStrip(Tail(s))

RECURSIVE RStrip(_)
RStrip(s) ==
    IF s = <<>> \/ ~IsSpace(s[Len(s)]) THEN s ELSE RStrip(SubSeq(s, 1, Len(s) - 1))

Strip(s) == RStrip(LStrip(s))

\* source_bytes[a:b] for 0 <= a <= b <= len(source_bytes)
Slice(bytes, a, b) == SubSeq(bytes, a + 1, b)

(***************************************************************************)
(* The helpers of lua_embedder.py.                                         *)
(***************************************************************************)
\* variant: decodes with errors='replace' and so never raises
extract_node_text_Lenient(node, src) ==
    [raised |-> FALSE,
     value |-> DecodeReplace(Slice(src, node.start_byte, node.end_byte))]

extract_node_text(node, src) == DecodeStrict(Slice(src, node.start_byte, node.end_byte))

\* variant: both lines are taken from the start point
get_node_line_range_StartOnly(node) ==
    <<node.start_point[1] + 1, node.start_point[1] + 1>>

\* variant: the rows as they are, without the + 1
get_node_line_range_ZeroBased(node) == <<node.start_point[1], node.end_point[1]>>

get_node_line_range(node) == <<node.start_point[1] + 1, node.end_point[1] + 1>>

\* index of the first child of the given type, 0 when there is none
RECURSIVE FirstOfType(_, _, _)
FirstOfType(children, type, i) ==
    IF i > Len(children) THEN 0
    ELSE IF children[i].type = type THEN i
    ELSE FirstOfType(children, type, i + 1)

\* the children of the given type, in child order
RECURSIVE SelectType(_, _)
SelectType(children, type) ==
    IF children = <<>> THEN <<>>
    ELSE IF Head(children).type = type
         THEN <<Head(children)>> \o SelectType(Tail(children), type)
    ELSE SelectType(Tail(children), type)

RECURSIVE Flatten(_)
Flatten(seqs) == IF seqs = <<>> THEN <<>> ELSE Head(seqs) \o Flatten(Tail(seqs))

\* variant: every child of a variable_list counts, separators included
IdentifierNodes_AllChildren(node) ==
    LET lists == SelectType(node.children, "variable_list")
    IN  Flatten([k \in 1..Len(lists) |-> lists[k].children])

\* the identifier nodes under the variable_list children of a node
IdentifierNodes(node) ==
    LET lists == SelectType(node.children, "variable_list")
    IN  SelectType(Flatten([k \in 1..Len(lists) |-> lists[k].children]), "identifier")

\* index of the last child of the given type, 0 when there is none
RECURSIVE LastOfType(_, _, _)
LastOfType(children, type, i) ==
    IF i = 0 THEN 0
    ELSE IF children[i].type = type THEN i
    ELSE LastOfType(children, type, i - 1)

\* variant: the scan of a function's children goes on after the first name
get_node_metadata_LastName(node, src) ==
    IF node.type = "function_definition"
    THEN LET k == LastOfType(node.children, "name", Len(node.children))
         IN  IF k = 0
             THEN [raised |-> FALSE, value |-> [node_type |-> node.type]]
             ELSE LET t == extract_node_text(node.children[k], src)
                  IN  IF t.raised
                      THEN [raised |-> TRUE, value |-> [node_type |-> node.type]]
                      ELSE [raised |-> FALSE,
                            value |-> [node_type |-> node.type, name |-> t.value]]
    ELSE IF node.type = "variable_declaration"
    THEN LET ids == IdentifierNodes(node)
             texts == [k \in 1..Len(ids) |-> extract_node_text(ids[k], src)]
         IN  IF \E k \in 1..Len(ids) : texts[k].raised
             THEN [raised |-> TRUE, value |-> [node_type |-> node.type]]
             ELSE IF Len(ids) = 0
             THEN [raised |-> FALSE, value |-> [node_type |-> node.type]]
             ELSE [raised |-> FALSE,
                   value |-> [node_type |-> node.type,
                              names |-> [k \in 1..Len(ids) |-> texts[k].value]]]
    ELSE [raised |-> FALSE, value |-> [node_type |-> node.type]]

\* variant: a node that is neither a function nor a declaration gets a null name
get_node_metadata_NullFilled(node, src) ==
    IF node.type = "function_definition"
    THEN LET k == FirstOfType(node.children, "name", 1)
         IN  IF k = 0
             THEN [raised |-> FALSE, value |-> [node_type |-> node.type]]
             ELSE LET t == extract_node_text(node.children[k], src)
                  IN  IF t.raised
                      THEN [raised |-> TRUE, value |-> [node_type |-> node.type]]
                      ELSE [raised |-> FALSE,
                            value |-> [node_type |-> node.type, name |-> t.value]]
    ELSE IF node.type = "variable_declaration"
    THEN LET ids == IdentifierNodes(node)
             texts == [k \in 1..Len(ids) |-> extract_node_text(ids[k], src)]
         IN  IF \E k \in 1..Len(ids) : texts[k].raised
             THEN [raised |-> TRUE, value |-> [node_type |-> node.type]]
             ELSE IF Len(ids) = 0
             THEN [raised |-> FALSE, value |-> [node_type |-> node.type]]
             ELSE [raised |-> FALSE,
                   value |-> [node_type |-> node.type,
                              names |-> [k \in 1..Len(ids) |-> texts[k].value]]]
    ELSE [raised |-> FALSE, value |-> [node_type |-> node.type, name |-> None]]

get_node_metadata(node, src) ==
    IF node.type = "function_definition"
    THEN LET k == FirstOfType(node.children, "name", 1)
         IN  IF k = 0
             THEN [raised |-> FALSE, value |-> [node_type |-> node.type]]
             ELSE LET t == extract_node_text(node.children[k], src)
                  IN  IF t.raised
                      THEN [raised |-> TRUE, value |-> [node_type |-> node.type]]
                      ELSE [raised |-> FALSE,
                            value |-> [node_type |-> node.type, name |-> t.value]]
    ELSE IF node.type = "variable_declaration"
    THEN LET ids == IdentifierNodes(node)
             texts == [k \in 1..Len(ids) |-> extract_node_text(ids[k], src)]
         IN  IF \E k \in 1..Len(ids) : texts[k].raised
             THEN [raised |-> TRUE, value |-> [node_type |-> node.type]]
             ELSE IF Len(ids) = 0
             THEN [raised |-> FALSE, value |-> [node_type |-> node.type]]
             ELSE [raised |-> FALSE,
                   value |-> [node_type |-> node.type,
                              names |-> [k \in 1..Len(ids) |-> texts[k].value]]]
    ELSE [raised |-> FALSE, value |-> [node_type |-> node.type]]

\* variant: call statements are chunked too
interesting_node_types_WithCalls ==
    {"function_definition", "table_constructor", "variable_declaration",
     "assignment_statement", "comment", "if_statement", "for_statement",
     "while_statement", "repeat_statement", "do_statement", "local_function",
     "function_call"}

interesting_node_types ==
    {"function_definition", "table_constructor", "variable_declaration",
     "assignment_statement", "comment", "if_statement", "for_statement",
     "while_statement", "repeat_statement", "do_statement", "local_function"}

\* the size threshold of process_node
MinChunkChars == 5

(***************************************************************************)
(* The parser's output.  A node carries its type tag, its byte span, the   *)
(* points (row, column) of its two ends and its children.  Rows count the  *)
(* line feeds before a byte offset, columns the bytes since the last one.  *)
(***************************************************************************)
RECURSIVE Row(_, _)
Row(src, off) ==
    IF off = 0 THEN 0
    ELSE Row(src, off - 1) + (IF src[off] = 10 THEN 1 ELSE 0)

RECURSIVE Column(_, _)
Column(src, off) ==
    IF off = 0 \/ src[off] = 10 THEN 0 ELSE Column(src, off - 1) + 1

Point(src, off) == <<Row(src, off), Column(src, off)>>

\* A node template: a type, the bytes of the node and its children as spans
\* relative to the first byte of the node.
Leaf(type, from, to) == [type |-> type, from |-> from, to |-> to, kids |-> <<>>]
Inner(type, from, to, kids) == [type |-> type, from |-> from, to |-> to, kids |-> kids]
Top(type, text, kids) == [type |-> type, text |-> text, kids |-> kids]

NodeTemplates ==
    { \* function f()end
      Top("function_definition",
          <<102,117,110,99,116,105,111,110,32,102,40,41,101,110,100>>,
          <<Leaf("function", 0, 8), Leaf("name", 9, 10),
            Leaf("parameters", 10, 12), Leaf("end", 12, 15)>>),
      \* local x,y=1
      Top("variable_declaration",
          <<108,111,99,97,108,32,120,44,121,61,49>>,
          <<Leaf("local", 0, 5),
            Inner("variable_list", 6, 9,
                  <<Leaf("identifier", 6, 7), Leaf(",", 7, 8),
                    Leaf("identifier", 8, 9)>>),
            Leaf("=", 9, 10), Leaf("expression_list", 10, 11)>>),
      \* --x : three characters
      Top("comment", <<45,45,120>>, <<>>),
      \* --abc\n : five characters once stripped, six unstripped
      Top("comment", <<45,45,97,98,99,10>>, <<>>),
      \* --ab\n : five bytes, four characters once stripped
      Top("comment", <<45,45,97,98,10>>, <<>>),
      \* --\xC3\xA9a : five bytes, four characters
      Top("comment", <<45,45,195,169,97>>, <<>>),
      \* --\xA9 abc : Latin-1 text, malformed as UTF-8
      Top("comment", <<45,45,169,32,97,98,99>>, <<>>),
      \* --\xA9 : malformed and three bytes
      Top("comment", <<45,45,169>>, <<>>),
      \* do\nend : spans two lines
      Top("do_statement", <<100,111,10,101,110,100>>, <<>>),
      \* print(1) : a type outside the allow-list
      Top("function_call", <<112,114,105,110,116,40,49,41>>,
          <<Leaf("identifier", 0, 5), Leaf("arguments", 5, 8)>>),
      \* \xA9\xA9 : malformed bytes the parser could not place
      Top("ERROR", <<169,169>>, <<>>) }

\* bytes between two top-level nodes, and after the last one
Separators == { <<>>, <<10>> }

\* Files whose nodes have nested constructs and name children.
TreeTemplates ==
    { \* function f() do x=1234 end end : an allow-listed block at depth 2 and
      \* an allow-listed statement at depth 3, both of sufficient size
      Top("function_definition",
          <<102,117,110,99,116,105,111,110,32,102,40,41,32,100,111,32,120,61,
            49,50,51,52,32,101,110,100,32,101,110,100>>,
          <<Leaf("function", 0, 8), Leaf("name", 9, 10),
            Leaf("parameters", 10, 12),
            Inner("do_statement", 13, 26,
                  <<Leaf("do", 13, 15),
                    Inner("assignment_statement", 16, 22,
                          <<Leaf("variable_list", 16, 17), Leaf("=", 17, 18),
                            Leaf("expression_list", 18, 22)>>),
                    Leaf("end", 23, 26)>>),
            Leaf("end", 27, 30)>>),
      \* function g()\nend : spans two lines
      Top("function_definition",
          <<102,117,110,99,116,105,111,110,32,103,40,41,10,101,110,100>>,
          <<Leaf("function", 0, 8), Leaf("name", 9, 10),
            Leaf("parameters", 10, 12), Leaf("end", 13, 16)>>),
      \* function a.b()end : two immediate children are names
      Top("function_definition",
          <<102,117,110,99,116,105,111,110,32,97,46,98,40,41,101,110,100>>,
          <<Leaf("function", 0, 8), Leaf("name", 9, 10), Leaf(".", 10, 11),
            Leaf("name", 11, 12), Leaf("parameters", 12, 14),
            Leaf("end", 14, 17)>>),
      \* function c.d()end : the names sit one level deeper
      Top("function_definition",
          <<102,117,110,99,116,105,111,110,32,99,46,100,40,41,101,110,100>>,
          <<Leaf("function", 0, 8),
            Inner("function_name", 9, 12,
                  <<Leaf("name", 9, 10), Leaf(".", 10, 11), Leaf("name", 11, 12)>>),
            Leaf("parameters", 12, 14), Leaf("end", 14, 17)>>),
      \* local function foo() return 1 end
      Top("local_function",
          <<108,111,99,97,108,32,102,117,110,99,116,105,111,110,32,102,111,111,
            40,41,32,114,101,116,117,114,110,32,49,32,101,110,100>>,
          <<Leaf("local", 0, 5), Leaf("function", 6, 14), Leaf("name", 15, 18),
            Leaf("parameters", 18, 20),
            Inner("block", 21, 29, <<Leaf("return_statement", 21, 29)>>),
            Leaf("end", 30, 33)>>) }

\* bytes before the first node and after the last one of such a file, and
\* between two of its nodes
EdgeSeparators == { <<>>, <<10>> }
TokenSeparators == { <<32>>, <<10>> }

\* Files whose nodes exercise every branch of get_node_metadata.
MetadataTemplates ==
    { \* local x,y=1 : two identifiers and a separator in the variable_list
      Top("variable_declaration",
          <<108,111,99,97,108,32,120,44,121,61,49>>,
          <<Leaf("local", 0, 5),
            Inner("variable_list", 6, 9,
                  <<Leaf("identifier", 6, 7), Leaf(",", 7, 8),
                    Leaf("identifier", 8, 9)>>),
            Leaf("=", 9, 10), Leaf("expression_list", 10, 11)>>),
      \* t[1]=12 : the variable_list holds no identifier
      Top("variable_declaration",
          <<116,91,49,93,61,49,50>>,
          <<Inner("variable_list", 0, 4,
                  <<Inner("bracket_index_expression", 0, 4,
                          <<Leaf("identifier", 0, 1), Leaf("[", 1, 2),
                            Leaf("number", 2, 3), Leaf("]", 3, 4)>>)>>),
            Leaf("=", 4, 5), Leaf("expression_list", 5, 7)>>),
      \* local zz=1 : the identifier is a direct child, outside any variable_list
      Top("variable_declaration",
          <<108,111,99,97,108,32,122,122,61,49>>,
          <<Leaf("local", 0, 5), Leaf("identifier", 6, 8),
            Leaf("=", 8, 9), Leaf("expression_list", 9, 10)>>),
      \* function f()end
      Top("function_definition",
          <<102,117,110,99,116,105,111,110,32,102,40,41,101,110,100>>,
          <<Leaf("function", 0, 8), Leaf("name", 9, 10),
            Leaf("parameters", 10, 12), Leaf("end", 12, 15)>>),
      \* function()end : no name child
      Top("function_definition",
          <<102,117,110,99,116,105,111,110,40,41,101,110,100>>,
          <<Leaf("function", 0, 8), Leaf("parameters", 8, 10),
            Leaf("end", 10, 13)>>),
      \* --abcd
      Top("comment", <<45,45,97,98,99,100>>, <<>>),
      \* local function foo() return 1 end : a name child outside a
      \* function_definition
      Top("local_function",
          <<108,111,99,97,108,32,102,117,110,99,116,105,111,110,32,102,111,111,
            40,41,32,114,101,116,117,114,110,32,49,32,101,110,100>>,
          <<Leaf("local", 0, 5), Leaf("function", 6, 14), Leaf("name", 15, 18),
            Leaf("parameters", 18, 20),
            Inner("block", 21, 29, <<Leaf("return_statement", 21, 29)>>),
            Leaf("end", 30, 33)>>) }

RECURSIVE MkNode(_, _, _)
MkNode(tpl, base, src) ==
    [type |-> tpl.type,
     start_byte |-> base + tpl.from,
     end_byte |-> base + tpl.to,
     start_point |-> Point(src, base + tpl.from),
     end_point |-> Point(src, base + tpl.to),
     children |-> [k \in 1..Len(tpl.kids) |-> MkNode(tpl.kids[k], base, src)]]

\* picks[k] = <<separator, template>>: the bytes of the file
RECURSIVE FileBytes(_, _)
FileBytes(picks, trail) ==
    IF picks = <<>> THEN trail
    ELSE Head(picks)[1] \o Head(picks)[2].text \o FileBytes(Tail(picks), trail)

\* offset of the first byte of the k-th top-level node
RECURSIVE StartOf(_, _)
StartOf(picks, k) ==
    IF k = 1 THEN Len(picks[1][1])
    ELSE StartOf(picks, k - 1) + Len(picks[k - 1][2].text) + Len(picks[k][1])

\* parser.parse(source_bytes).root_node
ParseTree(picks, trail) ==
    LET src == FileBytes(picks, trail)
    IN  [type |-> "chunk",
         start_byte |-> 0,
         end_byte |-> Len(src),
         start_point |-> Point(src, 0),
         end_point |-> Point(src, Len(src)),
         children |->
             [k \in 1..Len(picks) |->
                 MkNode(Inner(picks[k][2].type, 0, Len(picks[k][2].text),
                              picks[k][2].kids),
                        StartOf(picks, k), src)]]

FilePaths == {"Scripts/mission.lua"}

NoReturn == [kind |-> "pending", value |-> <<>>]

(***************************************************************************)
(* chunk_lua_file.                                                         *)
(***************************************************************************)
\* the state on entry of the loop, for a file of at most MaxChildren nodes
\* drawn from the templates: `edge` separates the file's ends from its nodes,
\* `between` two nodes
InitWith(templates, edge, between) ==
    /\ file_path \in FilePaths
    /\ \E n \in 0..MaxChildren :
         \E picks \in [1..n -> (edge \cup between) \X templates] :
           \E trail \in edge :
             /\ \A k \in 1..n : picks[k][1] \in (IF k = 1 THEN edge ELSE between)
             /\ source_bytes = FileBytes(picks, trail)
             /\ root_node = ParseTree(picks, trail)
    /\ chunks = <<>>
    /\ child_idx = 1
    /\ pc = "loop"
    /\ ret = NoReturn
    /\ store_idx = 0
    /\ rows = <<>>
    /\ inv = <<>>
    /\ disk = <<>>
    /\ plf = <<>>
    /\ mw = <<>>
    /\ bp = <<>>

Init == InitWith(NodeTemplates, Separators, Separators)

InitTree == InitWith(TreeTemplates, EdgeSeparators, TokenSeparators)

InitMetadata == InitWith(MetadataTemplates, EdgeSeparators, TokenSeparators)

\* every node of the forest, parents before children
RECURSIVE Preorder(_)
Preorder(nodes) ==
    IF nodes = <<>> THEN <<>>
    ELSE <<Head(nodes)>> \o Preorder(Head(nodes).children) \o Preorder(Tail(nodes))

\* variant: a full recursive walk of the tree
TopLevelNodes_Recursive(root) == Preorder(root.children)

\* the nodes the loop hands to process_node: `root_node.children`
TopLevelNodes(root) == root.children

\* variant: the id is the position of the child, not of the chunk
NodeChunk_ChildIndexId(node, text, metadata, parent_id) ==
    [id |-> child_idx,
     file_path |-> file_path,
     chunk_type |-> node.type,
     content |-> text,
     metadata |-> metadata,
     line_start |-> get_node_line_range(node)[1],
     line_end |-> get_node_line_range(node)[2],
     parent_id |-> parent_id]

\* variant: stores the stripped text
NodeChunk_Stripped(node, text, metadata, parent_id) ==
    [id |-> Len(chunks) + 1,
     file_path |-> file_path,
     chunk_type |-> node.type,
     content |-> Strip(text),
     metadata |-> metadata,
     line_start |-> get_node_line_range(node)[1],
     line_end |-> get_node_line_range(node)[2],
     parent_id |-> parent_id]

\* the dict process_node appends
NodeChunk(node, text, metadata, parent_id) ==
    [id |-> Len(chunks) + 1,
     file_path |-> file_path,
     chunk_type |-> node.type,
     content |-> text,
     metadata |-> metadata,
     line_start |-> get_node_line_range(node)[1],
     line_end |-> get_node_line_range(node)[2],
     parent_id |-> parent_id]

\* variant: the loop threads the id of the chunk built last
TopLevelParent_Previous == IF chunks = <<>> THEN None ELSE Some(Len(chunks))

\* the parent_id the top-level loop passes to process_node
TopLevelParent == None

\* variant: the threshold tested on the unstripped text
TooSmall_NoStrip(text) == Len(text) < MinChunkChars

\* variant: a node of exactly five characters is skipped too
TooSmall_Inclusive(text) == Len(Strip(text)) <= MinChunkChars

\* does process_node skip a node with this text
TooSmall(text) == Len(Strip(text)) < MinChunkChars

\* variant: a new chunk is put in front of the list
ProcessNode_Prepend ==
    /\ pc = "loop"
    /\ child_idx <= Len(TopLevelNodes(root_node))
    /\ LET node == TopLevelNodes(root_node)[child_idx]
           text == extract_node_text(node, source_bytes)
           meta == get_node_metadata(node, source_bytes)
       IN  IF node.type \notin interesting_node_types
           THEN /\ child_idx' = child_idx + 1
                /\ UNCHANGED <<chunks, pc, ret>>
           ELSE IF text.raised
           THEN /\ pc' = "raised"
                /\ ret' = [kind |-> "exception", value |-> <<>>]
                /\ UNCHANGED <<chunks, child_idx>>
           ELSE IF TooSmall(text.value)
           THEN /\ child_idx' = child_idx + 1
                /\ UNCHANGED <<chunks, pc, ret>>
           ELSE IF meta.raised
           THEN /\ pc' = "raised"
                /\ ret' = [kind |-> "exception", value |-> <<>>]
                /\ UNCHANGED <<chunks, child_idx>>
           ELSE /\ chunks' = <<NodeChunk(node, text.value, meta.value, TopLevelParent)>>
                                \o chunks
                /\ child_idx' = child_idx + 1
                /\ UNCHANGED <<pc, ret>>
    /\ UNCHANGED <<file_path, source_bytes, root_node>>
    /\ UNCHANGED <<storeVars, callsVars, toolVars>>

\* variant: the text is extracted before the type is tested
ProcessNode_DecodeFirst ==
    /\ pc = "loop"
    /\ child_idx <= Len(TopLevelNodes(root_node))
    /\ LET node == TopLevelNodes(root_node)[child_idx]
           text == extract_node_text(node, source_bytes)
           meta == get_node_metadata(node, source_bytes)
       IN  IF text.raised
           THEN /\ pc' = "raised"
                /\ ret' = [kind |-> "exception", value |-> <<>>]
                /\ UNCHANGED <<chunks, child_idx>>
           ELSE IF node.type \notin interesting_node_types \/ TooSmall(text.value)
           THEN /\ child_idx' = child_idx + 1
                /\ UNCHANGED <<chunks, pc, ret>>
           ELSE IF meta.raised
           THEN /\ pc' = "raised"
                /\ ret' = [kind |-> "exception", value |-> <<>>]
                /\ UNCHANGED <<chunks, child_idx>>
           ELSE /\ chunks' = Append(chunks,
                       NodeChunk(node, text.value, meta.value, TopLevelParent))
                /\ child_idx' = child_idx + 1
                /\ UNCHANGED <<pc, ret>>
    /\ UNCHANGED <<file_path, source_bytes, root_node>>
    /\ UNCHANGED <<storeVars, callsVars, toolVars>>

\* one iteration of `for child in root_node.children: process_node(child)`
ProcessNode ==
    /\ pc = "loop"
    /\ child_idx <= Len(TopLevelNodes(root_node))
    /\ LET node == TopLevelNodes(root_node)[child_idx]
           text == extract_node_text(node, source_bytes)
           meta == get_node_metadata(node, source_bytes)
       IN  IF node.type \notin interesting_node_types
           THEN /\ child_idx' = child_idx + 1
                /\ UNCHANGED <<chunks, pc, ret>>
           ELSE IF text.raised
           THEN /\ pc' = "raised"
                /\ ret' = [kind |-> "exception", value |-> <<>>]
                /\ UNCHANGED <<chunks, child_idx>>
           ELSE IF TooSmall(text.value)
           THEN /\ child_idx' = child_idx + 1
                /\ UNCHANGED <<chunks, pc, ret>>
           ELSE IF meta.raised
           THEN /\ pc' = "raised"
                /\ ret' = [kind |-> "exception", value |-> <<>>]
                /\ UNCHANGED <<chunks, child_idx>>
           ELSE /\ chunks' = Append(chunks,
                       NodeChunk(node, text.value, meta.value, TopLevelParent))
                /\ child_idx' = child_idx + 1
                /\ UNCHANGED <<pc, ret>>
    /\ UNCHANGED <<file_path, source_bytes, root_node>>
    /\ UNCHANGED <<storeVars, callsVars, toolVars>>

\* variant: line_end is the root's end row, without the + 1
FileChunk_EndRow ==
    [id |-> 1,
     file_path |-> file_path,
     chunk_type |-> "file",
     content |-> DecodeReplace(source_bytes),
     metadata |-> [node_type |-> "file"],
     line_start |-> 1,
     line_end |-> root_node.end_point[1],
     parent_id |-> None]

\* the dict of the file-level fallback
FileChunk ==
    [id |-> 1,
     file_path |-> file_path,
     chunk_type |-> "file",
     content |-> DecodeReplace(source_bytes),
     metadata |-> [node_type |-> "file"],
     line_start |-> 1,
     line_end |-> root_node.end_point[1] + 1,
     parent_id |-> None]

\* variant: the size threshold is applied to the fallback chunk as well
Fallback_Thresholded ==
    /\ pc = "loop"
    /\ child_idx > Len(TopLevelNodes(root_node))
    /\ chunks' = IF chunks = <<>> /\ ~TooSmall(DecodeReplace(source_bytes))
                 THEN Append(chunks, FileChunk) ELSE chunks
    /\ pc' = "return"
    /\ UNCHANGED <<file_path, source_bytes, root_node, child_idx, ret>>
    /\ UNCHANGED <<storeVars, callsVars, toolVars>>

\* variant: the fallback chunk is appended whatever the list holds
Fallback_Always ==
    /\ pc = "loop"
    /\ child_idx > Len(TopLevelNodes(root_node))
    /\ chunks' = Append(chunks, FileChunk)
    /\ pc' = "return"
    /\ UNCHANGED <<file_path, source_bytes, root_node, child_idx, ret>>
    /\ UNCHANGED <<storeVars, callsVars, toolVars>>

\* `if not chunks: chunks.append({...})` after the loop
\* variant: no whole-file chunk, the list is returned as the loop left it
Fallback_Dropped ==
    /\ pc = "loop"
    /\ child_idx > Len(TopLevelNodes(root_node))
    /\ pc' = "return"
    /\ UNCHANGED <<file_path, source_bytes, root_node, chunks, child_idx, ret>>
    /\ UNCHANGED <<storeVars, callsVars, toolVars>>

Fallback ==
    /\ pc = "loop"
    /\ child_idx > Len(TopLevelNodes(root_node))
    /\ chunks' = IF chunks = <<>> THEN Append(chunks, FileChunk) ELSE chunks
    /\ pc' = "return"
    /\ UNCHANGED <<file_path, source_bytes, root_node, child_idx, ret>>
    /\ UNCHANGED <<storeVars, callsVars, toolVars>>

\* `return chunks`
Return ==
    /\ pc = "return"
    /\ ret' = [kind |-> "value", value |-> chunks]
    /\ pc' = "returned"
    /\ UNCHANGED <<file_path, source_bytes, root_node, chunks, child_idx>>
    /\ UNCHANGED <<storeVars, callsVars, toolVars>>

Next == ProcessNode \/ Fallback \/ Return

Spec == Init /\ [][Next]_vars

\* the same run on the files of TreeTemplates
SpecTree == InitTree /\ [][Next]_vars

SpecMetadata == InitMetadata /\ [][Next]_vars

(***************************************************************************)
(* The caller (process_lua_files, lines 253-258) and store_chunks.         *)
(***************************************************************************)
\* the vector generate_embedding returns for a text: the embedding service
\* is outside the program, its answer is only named here
EmbeddingOf(text) == [embedding_of |-> text]

\* the row of one INSERT into lua_chunks
RowOf(chunk, embedding) ==
    [file_path |-> chunk.file_path,
     chunk_type |-> chunk.chunk_type,
     content |-> chunk.content,
     meta_data |-> chunk.metadata,
     embedding |-> embedding,
     line_start |-> chunk.line_start,
     line_end |-> chunk.line_end,
     parent_id |-> chunk.parent_id]

\* `if chunks and len(chunks) > 0: store_chunks(chunks, db_engine)`, else the
\* warning `No chunks extracted`
CallStore ==
    /\ pc = "returned"
    /\ IF ret.value # <<>> /\ Len(ret.value) > 0
       THEN pc' = "store" /\ store_idx' = 1
       ELSE pc' = "no_chunks" /\ UNCHANGED store_idx
    /\ UNCHANGED <<file_path, source_bytes, root_node, chunks, child_idx, ret,
                   rows, callsVars, toolVars>>

\* the outcomes of one iteration of the loop of store_chunks: the embedding
\* request fails, the insert fails, or the row is committed
StoreOutcomes == {"embedding_error", "database_error", "committed"}

\* variant: a failed embedding request ends the loop
StoreChunk_StopOnEmbeddingError ==
    /\ pc = "store"
    /\ store_idx <= Len(ret.value)
    /\ \E outcome \in StoreOutcomes :
         LET chunk == ret.value[store_idx]
             embedding == EmbeddingOf(chunk.content)
             stored == [ret EXCEPT !.value[store_idx] =
                           chunk @@ [embedding |-> embedding]]
         IN  IF outcome = "embedding_error"
             THEN /\ pc' = "store_raised"
                  /\ UNCHANGED <<ret, chunks, rows, store_idx>>
             ELSE IF outcome = "database_error"
             THEN /\ ret' = stored
                  /\ chunks' = stored.value
                  /\ pc' = "store_raised"
                  /\ UNCHANGED <<store_idx, rows>>
             ELSE /\ ret' = stored
                  /\ chunks' = stored.value
                  /\ rows' = Append(rows, RowOf(chunk, embedding))
                  /\ store_idx' = store_idx + 1
                  /\ UNCHANGED pc
    /\ UNCHANGED <<file_path, source_bytes, root_node, child_idx, callsVars, toolVars>>

\* one iteration of `for chunk in chunks` of store_chunks.  The list is the
\* one chunk_lua_file returned: `chunk["embedding"] = embedding` writes into
\* its dict.
StoreChunk ==
    /\ pc = "store"
    /\ store_idx <= Len(ret.value)
    /\ \E outcome \in StoreOutcomes :
         LET chunk == ret.value[store_idx]
             embedding == EmbeddingOf(chunk.content)
             stored == [ret EXCEPT !.value[store_idx] =
                           chunk @@ [embedding |-> embedding]]
         IN  IF outcome = "embedding_error"
             THEN /\ store_idx' = store_idx + 1
                  /\ UNCHANGED <<ret, chunks, rows, pc>>
             ELSE IF outcome = "database_error"
             THEN /\ ret' = stored
                  /\ chunks' = stored.value
                  /\ pc' = "store_raised"
                  /\ UNCHANGED <<store_idx, rows>>
             ELSE /\ ret' = stored
                  /\ chunks' = stored.value
                  /\ rows' = Append(rows, RowOf(chunk, embedding))
                  /\ store_idx' = store_idx + 1
                  /\ UNCHANGED pc
    /\ UNCHANGED <<file_path, source_bytes, root_node, child_idx, callsVars, toolVars>>

\* the loop of store_chunks is over
StoreEnd ==
    /\ pc = "store"
    /\ store_idx > Len(ret.value)
    /\ pc' = "stored"
    /\ UNCHANGED <<file_path, source_bytes, root_node, chunks, child_idx, ret,
                   storeVars, callsVars, toolVars>>

NextStore == Next \/ CallStore \/ StoreChunk \/ StoreEnd

\* a call of chunk_lua_file followed by the storing of its result
SpecStore == InitTree /\ [][NextStore]_vars

(***************************************************************************)
(* Several calls of chunk_lua_file.  Each call has its own locals (inv[p]  *)
(* holds those of call p) and starts by reading its file from the disk,    *)
(* which other programs may overwrite at any time.                         *)
(***************************************************************************)
Procs == 1..NumInvocations

InvPaths == {"Scripts/a.lua", "Scripts/b.lua"}

\* function g()\nend
FunctionTwoLines ==
    Top("function_definition",
        <<102,117,110,99,116,105,111,110,32,103,40,41,10,101,110,100>>,
        <<Leaf("function", 0, 8), Leaf("name", 9, 10),
          Leaf("parameters", 10, 12), Leaf("end", 13, 16)>>)

\* the files the disk may hold: `function g()\nend\n--abc\n` (two chunks) and
\* `\n--x\n` (nothing qualifies)
InvFiles ==
    { [picks |-> << << <<>>, FunctionTwoLines >>,
                    << <<10>>, Top("comment", <<45,45,97,98,99,10>>, <<>>) >> >>,
       trail |-> <<>>],
      [picks |-> << << <<10>>, Top("comment", <<45,45,120>>, <<>>) >> >>,
       trail |-> <<10>>] }

InvContents == { FileBytes(f.picks, f.trail) : f \in InvFiles }

\* parser.parse(bytes).root_node for the bytes of one of these files
ParseBytes(bytes) ==
    LET f == CHOOSE f \in InvFiles : FileBytes(f.picks, f.trail) = bytes
    IN  ParseTree(f.picks, f.trail)

\* the locals of a call on entry
CallOn(path) ==
    [file_path |-> path,
     source_bytes |-> <<>>,
     root_node |-> ParseTree(<<>>, <<>>),
     chunks |-> <<>>,
     child_idx |-> 1,
     pc |-> "open",
     ret |-> NoReturn]

InitCalls ==
    /\ inv \in [Procs -> {CallOn(path) : path \in InvPaths}]
    /\ disk \in [InvPaths -> InvContents]
    /\ file_path \in FilePaths
    /\ source_bytes = <<>>
    /\ root_node = ParseTree(<<>>, <<>>)
    /\ chunks = <<>>
    /\ child_idx = 1
    /\ pc = "idle"
    /\ ret = NoReturn
    /\ store_idx = 0
    /\ rows = <<>>
    /\ plf = <<>>
    /\ mw = <<>>
    /\ bp = <<>>

singleVars == <<file_path, source_bytes, root_node, chunks, child_idx, pc, ret>>

\* variant: one module-level list serves every call
ChunksOwner_Module(p) == 1

\* the call whose list `chunks` call p appends to and returns: `chunks = []`
\* is a local of each call
ChunksOwner(p) == p

\* `with open(file_path, 'rb') as f: source_bytes = f.read()` and the parse
OpenFile(p) ==
    /\ inv[p].pc = "open"
    /\ inv' = [inv EXCEPT ![p].source_bytes = disk[inv[p].file_path],
                          ![p].root_node = ParseBytes(disk[inv[p].file_path]),
                          ![p].pc = "loop"]
    /\ UNCHANGED <<disk, singleVars, storeVars, toolVars>>

\* process_node(child) in call p
ProcessNodeOf(p) ==
    /\ inv[p].pc = "loop"
    /\ inv[p].child_idx <= Len(TopLevelNodes(inv[p].root_node))
    /\ LET l == inv[p]
           o == ChunksOwner(p)
           node == TopLevelNodes(l.root_node)[l.child_idx]
           text == extract_node_text(node, l.source_bytes)
           meta == get_node_metadata(node, l.source_bytes)
           raise == [inv EXCEPT ![p].pc = "raised",
                                ![p].ret = [kind |-> "exception", value |-> <<>>]]
           skip == [inv EXCEPT ![p].child_idx = @ + 1]
       IN  inv' =
             IF node.type \notin interesting_node_types THEN skip
             ELSE IF text.raised THEN raise
             ELSE IF TooSmall(text.value) THEN skip
             ELSE IF meta.raised THEN raise
             ELSE [inv EXCEPT
                     ![o].chunks = Append(@,
                         [id |-> Len(inv[o].chunks) + 1,
                          file_path |-> l.file_path,
                          chunk_type |-> node.type,
                          content |-> text.value,
                          metadata |-> meta.value,
                          line_start |-> get_node_line_range(node)[1],
                          line_end |-> get_node_line_range(node)[2],
                          parent_id |-> None]),
                     ![p].child_idx = @ + 1]
    /\ UNCHANGED <<disk, singleVars, storeVars, toolVars>>

\* variant: the fallback reads the file again for its content
FallbackOf_Reread(p) ==
    /\ inv[p].pc = "loop"
    /\ inv[p].child_idx > Len(TopLevelNodes(inv[p].root_node))
    /\ LET l == inv[p]
           o == ChunksOwner(p)
       IN  inv' =
             IF inv[o].chunks = <<>>
             THEN [inv EXCEPT
                     ![o].chunks = Append(@,
                         [id |-> 1,
                          file_path |-> l.file_path,
                          chunk_type |-> "file",
                          content |-> DecodeReplace(disk[l.file_path]),
                          metadata |-> [node_type |-> "file"],
                          line_start |-> 1,
                          line_end |-> l.root_node.end_point[1] + 1,
                          parent_id |-> None]),
                     ![p].pc = "return"]
             ELSE [inv EXCEPT ![p].pc = "return"]
    /\ UNCHANGED <<disk, singleVars, storeVars, toolVars>>

\* `if not chunks: chunks.append({...})` in call p
FallbackOf(p) ==
    /\ inv[p].pc = "loop"
    /\ inv[p].child_idx > Len(TopLevelNodes(inv[p].root_node))
    /\ LET l == inv[p]
           o == ChunksOwner(p)
       IN  inv' =
             IF inv[o].chunks = <<>>
             THEN [inv EXCEPT
                     ![o].chunks = Append(@,
                         [id |-> 1,
                          file_path |-> l.file_path,
                          chunk_type |-> "file",
                          content |-> DecodeReplace(l.source_bytes),
                          metadata |-> [node_type |-> "file"],
                          line_start |-> 1,
                          line_end |-> l.root_node.end_point[1] + 1,
                          parent_id |-> None]),
                     ![p].pc = "return"]
             ELSE [inv EXCEPT ![p].pc = "return"]
    /\ UNCHANGED <<disk, singleVars, storeVars, toolVars>>

\* `return chunks` in call p
ReturnOf(p) ==
    /\ inv[p].pc = "return"
    /\ inv' = [inv EXCEPT
                 ![p].ret = [kind |-> "value", value |-> inv[ChunksOwner(p)].chunks],
                 ![p].pc = "returned"]
    /\ UNCHANGED <<disk, singleVars, storeVars, toolVars>>

\* another program rewrites a file
Overwrite(path) ==
    /\ \E bytes \in InvContents :
         /\ bytes # disk[path]
         /\ disk' = [disk EXCEPT ![path] = bytes]
    /\ UNCHANGED <<inv, singleVars, storeVars, toolVars>>

NextCalls ==
    \/ \E p \in Procs : OpenFile(p)
    \/ \E p \in Procs : ProcessNodeOf(p)
    \/ \E p \in Procs : FallbackOf(p)
    \/ \E p \in Procs : ReturnOf(p)
    \/ \E path \in InvPaths : Overwrite(path)

SpecCalls == InitCalls /\ [][NextCalls]_vars

(***************************************************************************)
(* openwebui_middleware.py: the proxy of /api/chat/completions.  A message *)
(* is a record with a role and, unless the key is missing, a content; a    *)
(* text is the sequence of its code points.                                *)
(***************************************************************************)
\* the keywords of is_dcs_related, in the order of the list:
\*   dcs, digital combat simulator, eagle dynamics, lua, script, mission editor, waypoint
\*   aircraft, helicopter, trigger, event, flag, moose, miz
\*   mission, map, world, spawn, flight, route
dcs_keywords ==
    <<
      <<100,99,115>>,
      <<100,105,103,105,116,97,108,32,99,111,109,98,97,116,32,115,105,109,117,108,97,116,111,114>>,
      <<101,97,103,108,101,32,100,121,110,97,109,105,99,115>>,
      <<108,117,97>>,
      <<115,99,114,105,112,116>>,
      <<109,105,115,115,105,111,110,32,101,100,105,116,111,114>>,
      <<119,97,121,112,111,105,110,116>>,
      <<97,105,114,99,114,97,102,116>>,
      <<104,101,108,105,99,111,112,116,101,114>>,
      <<116,114,105,103,103,101,114>>,
      <<101,118,101,110,116>>,
      <<102,108,97,103>>,
      <<109,111,111,115,101>>,
      <<109,105,122>>,
      <<109,105,115,115,105,111,110>>,
      <<109,97,112>>,
      <<119,111,114,108,100>>,
      <<115,112,97,119,110>>,
      <<102,108,105,103,104,116>>,
      <<114,111,117,116,101>>
    >>

\* str.lower() on the letters A-Z
LowerChar(c) == IF c \in 65..90 THEN c + 32 ELSE c
Lower(text) == [i \in 1..Len(text) |-> LowerChar(text[i])]

\* `keyword in text`
RECURSIVE Contains(_, _)
Contains(text, keyword) ==
    IF Len(text) < Len(keyword) THEN FALSE
    ELSE IF SubSeq(text, 1, Len(keyword)) = keyword THEN TRUE
    ELSE Contains(Tail(text), keyword)

\* variant: every text counts as DCS-related
is_dcs_related_Always(text) == TRUE

is_dcs_related(text) ==
    LET text_lower == Lower(text)
    IN  \E k \in 1..Len(dcs_keywords) : Contains(text_lower, dcs_keywords[k])

\* message.get("content"): None when the key is missing
GetContent(message) ==
    IF "content" \in DOMAIN message THEN Some(message.content) ELSE None

\* the content of the last message with role user, None when there is none
RECURSIVE extract_user_query(_)
extract_user_query(messages) ==
    IF messages = <<>> THEN None
    ELSE IF messages[Len(messages)].role = "user"
         THEN GetContent(messages[Len(messages)])
    ELSE extract_user_query(SubSeq(messages, 1, Len(messages) - 1))

\* `if user_query and is_dcs_related(user_query)`: None and "" are falsy
ShouldEnhance(user_query) ==
    /\ user_query # None
    /\ user_query[1] # <<>>
    /\ is_dcs_related(user_query[1])

\* the texts of the requests: `Spawn`, `maple`, `hi` and the empty text
MessageTexts ==
    { <<83,112,97,119,110>>, <<109,97,112,108,101>>, <<104,105>>, <<>> }

MessageRoles == {"user", "assistant"}

RequestMessages ==
    [role : MessageRoles, content : MessageTexts] \cup [role : MessageRoles]

\* the prompt the RAG endpoint builds for a query: the endpoint is outside
\* the program, its answer is only named here (`[ctx]` before the query)
EnhancedPrompt(query) == <<91,99,116,120,93>> \o query

\* the RAG call: status 200 with a prompt, status 200 without the field
\* `prompt`, another status, or an exception of requests.post
RagOutcomes == {"ok", "no_prompt", "non_200", "raises"}

\* the call to Ollama answers or raises
OllamaOutcomes == {"answers", "raises"}

InitProxy ==
    /\ \E n \in 0..MaxMessages :
         \E messages \in [1..n -> RequestMessages] :
            mw = [messages |-> messages,
                  data_messages |-> messages,
                  user_query |-> None,
                  rag_calls |-> <<>>,
                  rag_outcome |-> "none",
                  ollama_calls |-> <<>>,
                  response |-> "pending",
                  pc |-> "extract"]
    /\ file_path \in FilePaths
    /\ source_bytes = <<>>
    /\ root_node = ParseTree(<<>>, <<>>)
    /\ chunks = <<>>
    /\ child_idx = 1
    /\ pc = "idle"
    /\ ret = NoReturn
    /\ store_idx = 0
    /\ rows = <<>>
    /\ inv = <<>>
    /\ disk = <<>>
    /\ plf = <<>>
    /\ bp = <<>>

proxyFrame == <<singleVars, storeVars, callsVars, plf, bp>>

\* lines 80-84: the last user query and the test for enhancement
ExtractQuery ==
    /\ mw.pc = "extract"
    /\ LET user_query == extract_user_query(mw.messages)
       IN  mw' = [mw EXCEPT !.user_query = user_query,
                            !.pc = IF ShouldEnhance(user_query)
                                   THEN "rag" ELSE "forward"]
    /\ UNCHANGED proxyFrame

\* the messages with every user message whose content is the query replaced
\* by a new user message holding the prompt (lines 100-105)
ReplaceQuery(messages, user_query, enhanced_prompt) ==
    [i \in 1..Len(messages) |->
        IF messages[i].role = "user" /\ GetContent(messages[i]) = user_query
        THEN [role |-> "user", content |-> enhanced_prompt]
        ELSE messages[i]]

\* variant: an exception of the RAG call reaches the outer handler
RagCall_Propagate ==
    /\ mw.pc = "rag"
    /\ \E outcome \in RagOutcomes :
         LET called == [mw EXCEPT !.rag_calls = Append(@, mw.user_query[1]),
                                  !.rag_outcome = outcome]
         IN  mw' = IF outcome = "ok"
                   THEN [called EXCEPT
                           !.data_messages =
                               ReplaceQuery(mw.messages, mw.user_query,
                                            EnhancedPrompt(mw.user_query[1])),
                           !.pc = "forward"]
                   ELSE IF outcome = "non_200"
                   THEN [called EXCEPT !.pc = "forward"]
                   ELSE [called EXCEPT !.response = "error", !.pc = "done"]
    /\ UNCHANGED proxyFrame

\* lines 87-113: the call of /rag_prompt and the replacement
RagCall ==
    /\ mw.pc = "rag"
    /\ \E outcome \in RagOutcomes :
         LET called == [mw EXCEPT !.rag_calls = Append(@, mw.user_query[1]),
                                  !.rag_outcome = outcome]
         IN  mw' = IF outcome = "ok"
                   THEN [called EXCEPT
                           !.data_messages =
                               ReplaceQuery(mw.messages, mw.user_query,
                                            EnhancedPrompt(mw.user_query[1])),
                           !.pc = "forward"]
                   ELSE [called EXCEPT !.pc = "forward"]
    /\ UNCHANGED proxyFrame

\* lines 116-131: the request goes to Ollama, whose answer is returned; an
\* exception ends in the error response
Forward ==
    /\ mw.pc = "forward"
    /\ \E outcome \in OllamaOutcomes :
         mw' = [mw EXCEPT !.ollama_calls = Append(@, mw.data_messages),
                          !.response = IF outcome = "answers"
                                       THEN "ollama" ELSE "error",
                          !.pc = "done"]
    /\ UNCHANGED proxyFrame

NextProxy == ExtractQuery \/ RagCall \/ Forward

SpecProxy == InitProxy /\ [][NextProxy]_vars

(***************************************************************************)
(* batch_process.py: main hands the filtered list of files, cut at         *)
(* --continue-from, to process_batch, which runs lua_embedder.py once per  *)
(* file.                                                                   *)
(***************************************************************************)
BatchPaths == {"a.lua", "b.lua", "c.lua", "d.lua"}

\* the lists get_all_lua_files can return: glob yields a path once
FileLists ==
    UNION { {l \in [1..n -> BatchPaths] : \A i, j \in 1..n : l[i] = l[j] => i = j}
            : n \in 0..MaxBatchFiles }

\* --continue-from: not given, a path, or the empty text
ContinueFrom == {None, Some("b.lua"), Some("d.lua"), Some("")}

\* --batch-size is any integer
BatchSizes == -1..MaxBatchFiles

\* subprocess.run returns exit code 0, returns another exit code, or an
\* exception is raised inside the try of the file
LaunchOutcomes == {"zero", "nonzero", "exception"}

InitBatch ==
    /\ \E all_files \in FileLists, continue_from \in ContinueFrom,
          batch_size \in BatchSizes :
         bp = [all_files |-> all_files,
               continue_from |-> continue_from,
               batch_size |-> batch_size,
               files |-> <<>>,
               i |-> 0,
               batch |-> <<>>,
               j |-> 1,
               batches |-> <<>>,
               launched |-> <<>>,
               pc |-> "main"]
    /\ file_path \in FilePaths
    /\ source_bytes = <<>>
    /\ root_node = ParseTree(<<>>, <<>>)
    /\ chunks = <<>>
    /\ child_idx = 1
    /\ pc = "idle"
    /\ ret = NoReturn
    /\ store_idx = 0
    /\ rows = <<>>
    /\ inv = <<>>
    /\ disk = <<>>
    /\ plf = <<>>
    /\ mw = <<>>

batchFrame == <<singleVars, storeVars, callsVars, plf, mw>>

\* list.index(x): the first position of x, 0 standing for ValueError
RECURSIVE IndexFrom(_, _, _)
IndexFrom(list, x, k) ==
    IF k > Len(list) THEN 0
    ELSE IF list[k] = x THEN k
    ELSE IndexFrom(list, x, k + 1)

\* variant: the run resumes after the named file
ContinueList_After(all_files, continue_from) ==
    IF continue_from # None /\ continue_from[1] # ""
    THEN LET start_index == IndexFrom(all_files, continue_from[1], 1)
         IN  IF start_index = 0 THEN all_files
             ELSE SubSeq(all_files, start_index + 1, Len(all_files))
    ELSE all_files

\* lines 134-140: `all_files[start_index:]`, or the whole list on ValueError
ContinueList(all_files, continue_from) ==
    IF continue_from # None /\ continue_from[1] # ""
    THEN LET start_index == IndexFrom(all_files, continue_from[1], 1)
         IN  IF start_index = 0 THEN all_files
             ELSE SubSeq(all_files, start_index, Len(all_files))
    ELSE all_files

\* main up to the call of process_batch and the first statement of it:
\* `len(files)//batch_size` raises ZeroDivisionError for a batch size of 0,
\* which the handler of main logs
BatchMain ==
    /\ bp.pc = "main"
    /\ bp' = [bp EXCEPT !.files = ContinueList(bp.all_files, bp.continue_from),
                        !.pc = IF bp.batch_size = 0 THEN "failed" ELSE "range"]
    /\ UNCHANGED batchFrame

\* `i in range(0, len(files), batch_size)`: with a negative step the range
\* is empty
InRange(i, n, step) == step > 0 /\ i < n

Min(a, b) == IF a < b THEN a ELSE b

\* `batch = files[i:i+batch_size]`
BatchBegin ==
    /\ bp.pc = "range"
    /\ InRange(bp.i, Len(bp.files), bp.batch_size)
    /\ LET batch == SubSeq(bp.files, bp.i + 1,
                           Min(bp.i + bp.batch_size, Len(bp.files)))
       IN  bp' = [bp EXCEPT !.batch = batch,
                            !.batches = Append(@, batch),
                            !.j = 1,
                            !.pc = "files"]
    /\ UNCHANGED batchFrame

\* the body of `for file_path in file_pbar`: one subprocess.run, whose
\* failure is logged
LaunchFile ==
    /\ bp.pc = "files"
    /\ bp.j <= Len(bp.batch)
    /\ \E outcome \in LaunchOutcomes :
         bp' = [bp EXCEPT !.launched = Append(@, [file_path |-> bp.batch[bp.j],
                                                  outcome |-> outcome]),
                          !.j = @ + 1]
    /\ UNCHANGED batchFrame

\* the batch is over: the next value of the range
BatchEnd ==
    /\ bp.pc = "files"
    /\ bp.j > Len(bp.batch)
    /\ bp' = [bp EXCEPT !.i = @ + bp.batch_size, !.pc = "range"]
    /\ UNCHANGED batchFrame

\* the range is exhausted: `All batches completed successfully`
BatchDone ==
    /\ bp.pc = "range"
    /\ ~InRange(bp.i, Len(bp.files), bp.batch_size)
    /\ bp' = [bp EXCEPT !.pc = "done"]
    /\ UNCHANGED batchFrame

NextBatch == BatchMain \/ BatchBegin \/ LaunchFile \/ BatchEnd \/ BatchDone

SpecBatch == InitBatch /\ [][NextBatch]_vars

(***************************************************************************)
(* process_lua_files: the loop over the files glob found.  What happens    *)
(* inside chunk_lua_file and store_chunks is modelled above; here a file   *)
(* only has the outcome that matters to the loop: chunk_lua_file raised    *)
(* (pc = "raised" above), store_chunks raised (pc = "store_raised") or     *)
(* store_chunks returned (pc = "stored").                                  *)
(***************************************************************************)
FileOutcomes == {"chunk_raised", "store_raised", "stored"}

InitFiles ==
    /\ \E lua_files \in FileLists, parser_ok \in BOOLEAN :
         plf = [lua_files |-> lua_files,
                parser_ok |-> parser_ok,
                idx |-> 1,
                attempts |-> <<>>,
                errors |-> <<>>,
                pc |-> "start"]
    /\ file_path \in FilePaths
    /\ source_bytes = <<>>
    /\ root_node = ParseTree(<<>>, <<>>)
    /\ chunks = <<>>
    /\ child_idx = 1
    /\ pc = "idle"
    /\ ret = NoReturn
    /\ store_idx = 0
    /\ rows = <<>>
    /\ inv = <<>>
    /\ disk = <<>>
    /\ mw = <<>>
    /\ bp = <<>>

filesFrame == <<singleVars, storeVars, callsVars, mw, bp>>

\* lines 234-248: nothing to do without files, no loop without a parser
EnterLoop ==
    /\ plf.pc = "start"
    /\ plf' = [plf EXCEPT !.pc = IF plf.lua_files = <<>> THEN "no_files"
                                 ELSE IF ~plf.parser_ok THEN "no_parser"
                                 ELSE "loop"]
    /\ UNCHANGED filesFrame

\* variant: the exception of a file leaves the loop
AttemptFile_Abort ==
    /\ plf.pc = "loop"
    /\ plf.idx <= Len(plf.lua_files)
    /\ \E outcome \in FileOutcomes :
         LET path == plf.lua_files[plf.idx]
             tried == [plf EXCEPT !.attempts = Append(@, path)]
         IN  plf' = IF outcome = "stored"
                    THEN [tried EXCEPT !.idx = @ + 1]
                    ELSE [tried EXCEPT
                            !.errors = Append(@, [file_path |-> path,
                                                  outcome |-> outcome]),
                            !.pc = "failed"]
    /\ UNCHANGED filesFrame

\* the body of the loop for one file (lines 251-261): an exception of
\* chunk_lua_file or store_chunks is logged and the loop continues
AttemptFile ==
    /\ plf.pc = "loop"
    /\ plf.idx <= Len(plf.lua_files)
    /\ \E outcome \in FileOutcomes :
         LET path == plf.lua_files[plf.idx]
             tried == [plf EXCEPT !.attempts = Append(@, path)]
         IN  plf' = IF outcome = "stored"
                    THEN [tried EXCEPT !.idx = @ + 1]
                    ELSE [tried EXCEPT
                            !.errors = Append(@, [file_path |-> path,
                                                  outcome |-> outcome]),
                            !.idx = @ + 1]
    /\ UNCHANGED filesFrame

\* the list is exhausted
LoopEnd ==
    /\ plf.pc = "loop"
    /\ plf.idx > Len(plf.lua_files)
    /\ plf' = [plf EXCEPT !.pc = "done"]
    /\ UNCHANGED filesFrame

NextFiles == EnterLoop \/ AttemptFile \/ LoopEnd

SpecFiles == InitFiles /\ [][NextFiles]_vars

TypeOK ==
    /\ pc \in {"loop", "return", "returned", "raised",
              "store", "no_chunks", "store_raised", "stored", "idle"}
    /\ child_idx \in 1..(Len(root_node.children) + 1)
    /\ ret.kind \in {"pending", "value", "exception"}

(***************************************************************************)
(* Vocabulary of the properties.                                           *)
(***************************************************************************)
Children == root_node.children

NodeBytes(k) == Slice(source_bytes, Children[k].start_byte, Children[k].end_byte)

\* the type of the k-th direct child of the root is on the allow-list
Allowed(k) == Children[k].type \in interesting_node_types

\* length of a string without its leading and trailing white space: the
\* distance between its first and its last character that is not a space
NonSpaceAt(s) == {i \in 1..Len(s) : ~IsSpace(s[i])}
StrippedLen(s) ==
    LET at == NonSpaceAt(s)
    IN  IF at = {} THEN 0
        ELSE (CHOOSE i \in at : \A j \in at : j <= i)
             - (CHOOSE i \in at : \A j \in at : i <= j) + 1

\* UTF-8 encoding of a string
RECURSIVE EncodeUtf8(_)
EncodeUtf8(s) ==
    IF s = <<>> THEN <<>>
    ELSE LET c == Head(s)
         IN  (IF c < 128 THEN <<c>>
              ELSE IF c < 2048 THEN <<192 + (c \div 64), 128 + (c % 64)>>
              ELSE <<224 + (c \div 4096), 128 + ((c \div 64) % 64), 128 + (c % 64)>>)
             \o EncodeUtf8(Tail(s))

BadSpan(k) == Allowed(k) /\ ~ValidUtf8(NodeBytes(k))

\* the k-th direct child qualifies: allow-listed, and at least five
\* characters once decoded and stripped
Qualifies(k) ==
    /\ Allowed(k)
    /\ ValidUtf8(NodeBytes(k))
    /\ StrippedLen(DecodeReplace(NodeBytes(k))) >= 5

\* the indices of the qualifying children among the first n, ascending
RECURSIVE QualifyingUpTo(_)
QualifyingUpTo(n) ==
    IF n = 0 THEN <<>>
    ELSE IF Qualifies(n) THEN Append(QualifyingUpTo(n - 1), n)
    ELSE QualifyingUpTo(n - 1)

QualifyingChildren == QualifyingUpTo(Len(Children))
NumQualifying == Len(QualifyingChildren)

Returned == ret.kind = "value"
HasFileChunk(cs) == \E i \in 1..Len(cs) : cs[i].chunk_type = "file"

\* C1: when at least one direct child of the root qualifies, no "file" chunk
\* is ever produced and the returned sequence has one chunk per qualifying
\* child.
C1_CountOfQualifying ==
    LET n == NumQualifying
    IN  n >= 1 =>
           /\ ~HasFileChunk(chunks)
           /\ Returned => /\ ~HasFileChunk(ret.value)
                          /\ Len(ret.value) = n

C1_Witness ==
    /\ Returned
    /\ NumQualifying >= 1
    /\ \E k \in 1..Len(Children) : Allowed(k) /\ ~Qualifies(k)

\* C2: with no allow-listed direct child the result is exactly one chunk:
\* type "file", id 1, no parent, metadata {node_type: "file"}, lines 1 to the
\* root's end row + 1.
C2_FallbackShape ==
    (Returned /\ \A k \in 1..Len(Children) : ~Allowed(k)) =>
        /\ Len(ret.value) = 1
        /\ ret.value[1].chunk_type = "file"
        /\ ret.value[1].id = 1
        /\ ret.value[1].parent_id = None
        /\ ret.value[1].metadata = [node_type |-> "file"]
        /\ ret.value[1].file_path = file_path
        /\ ret.value[1].line_start = 1
        /\ ret.value[1].line_end = root_node.end_point[1] + 1

C2_Witness ==
    /\ Returned
    /\ Len(Children) = 2
    /\ \A k \in 1..Len(Children) : ~Allowed(k)
    /\ ret.value[1].line_end >= 3

\* a chunk made from the k-th direct child of the root
FromChild(c, k) ==
    /\ c.chunk_type = Children[k].type
    /\ EncodeUtf8(c.content) = NodeBytes(k)
    /\ c.line_start = Children[k].start_point[1] + 1

NeverMixed(cs) ==
    \/ \A i \in 1..Len(cs) :
          /\ cs[i].chunk_type # "file"
          /\ \E k \in 1..Len(Children) : Allowed(k) /\ FromChild(cs[i], k)
    \/ Len(cs) = 1 /\ cs[1].chunk_type = "file"

\* C3: the chunk list is never a mix of node chunks and the "file" chunk, and
\* the "file" chunk is appended only once every direct child has been
\* processed and the list is still empty.
C3_NeverMixed ==
    /\ [](NeverMixed(chunks) /\ (Returned => NeverMixed(ret.value)))
    /\ [][(HasFileChunk(chunks') /\ ~HasFileChunk(chunks))
            => (child_idx > Len(Children) /\ chunks = <<>>)]_vars

C3_Witness ==
    /\ Returned
    /\ HasFileChunk(ret.value)
    /\ \E k \in 1..Len(Children) : Allowed(k)

\* C4: in every state of a run the chunk at position i has id i.
C4_DenseIds ==
    /\ \A i \in 1..Len(chunks) : chunks[i].id = i
    /\ Returned => \A i \in 1..Len(ret.value) : ret.value[i].id = i

C4_Witness ==
    /\ Returned
    /\ Len(Children) = 2
    /\ Allowed(1) /\ ~Qualifies(1)
    /\ Len(ret.value) = 1
    /\ FromChild(ret.value[1], 2)

\* C5: no chunk of an allow-listed type has fewer than 5 characters once
\* stripped, and an allow-listed child with exactly 5 is kept.
C5_SizeThreshold ==
    /\ \A i \in 1..Len(chunks) :
          chunks[i].chunk_type \in interesting_node_types
             => StrippedLen(chunks[i].content) >= 5
    /\ Returned =>
          \A k \in 1..Len(Children) :
             (Allowed(k) /\ ValidUtf8(NodeBytes(k))
                /\ StrippedLen(DecodeReplace(NodeBytes(k))) = 5)
             => \E i \in 1..Len(ret.value) : FromChild(ret.value[i], k)

C5_Witness ==
    /\ Returned
    /\ \E k \in 1..Len(Children) :
          Qualifies(k) /\ StrippedLen(DecodeReplace(NodeBytes(k))) = 5
    /\ \E k \in 1..Len(Children) :
          /\ Allowed(k) /\ ValidUtf8(NodeBytes(k))
          /\ Len(NodeBytes(k)) >= 5
          /\ StrippedLen(DecodeReplace(NodeBytes(k))) = 4

\* C6: the content of the i-th node chunk, encoded back to UTF-8, is exactly
\* the byte span of the i-th qualifying child: nothing is stripped or
\* normalised.
C6_RoundTrip ==
    ~HasFileChunk(chunks) =>
        LET q == QualifyingChildren
        IN  /\ Len(chunks) <= Len(q)
            /\ \A i \in 1..Len(chunks) :
                  /\ EncodeUtf8(chunks[i].content) = NodeBytes(q[i])
                  /\ chunks[i].content = DecodeReplace(NodeBytes(q[i]))

C6_Witness ==
    /\ Returned
    /\ \E i \in 1..Len(ret.value) :
          /\ ret.value[i].chunk_type # "file"
          /\ StrippedLen(ret.value[i].content) < Len(ret.value[i].content)

\* C7: every chunk has 1 <= line_start <= line_end, and the lines of a node
\* chunk are the rows of its node plus one.
C7_LineRange ==
    /\ \A i \in 1..Len(chunks) :
          /\ chunks[i].line_start >= 1
          /\ chunks[i].line_end >= 1
          /\ chunks[i].line_end >= chunks[i].line_start
    /\ ~HasFileChunk(chunks) =>
          LET q == QualifyingChildren
          IN  /\ Len(chunks) <= Len(q)
              /\ \A i \in 1..Len(chunks) :
                    /\ chunks[i].line_start = Children[q[i]].start_point[1] + 1
                    /\ chunks[i].line_end = Children[q[i]].end_point[1] + 1

C7_Witness ==
    /\ Returned
    /\ \E i \in 1..Len(ret.value) :
          /\ ret.value[i].chunk_type # "file"
          /\ ret.value[i].line_start >= 2
          /\ ret.value[i].line_end > ret.value[i].line_start

\* C8: when the span of an allow-listed direct child is not valid UTF-8 the
\* run never returns: it ends with the decode error, the caller gets no chunk
\* sequence, and the fallback chunk is never built.
C8_DecodeErrorFatal ==
    (\E k \in 1..Len(Children) : BadSpan(k)) =>
        /\ ~Returned
        /\ pc \in {"loop", "raised"}
        /\ ~HasFileChunk(chunks)
        /\ pc = "raised" => ret = [kind |-> "exception", value |-> <<>>]
        /\ (pc = "loop" /\ child_idx <= Len(Children)) =>
              \E k \in child_idx..Len(Children) : BadSpan(k)

C8_Witness ==
    /\ pc = "raised"
    /\ ret.kind = "exception"
    /\ Len(chunks) = 1
    /\ BadSpan(child_idx)
    /\ Len(NodeBytes(child_idx)) < 5

\* C9: with no allow-listed direct child the run never fails, whatever the
\* bytes; it returns the single fallback chunk holding the whole buffer
\* decoded with U+FFFD in place of every malformed byte.
C9_FallbackLenient ==
    (\A k \in 1..Len(Children) : ~Allowed(k)) =>
        /\ pc # "raised"
        /\ ret.kind # "exception"
        /\ Returned =>
              /\ Len(ret.value) = 1
              /\ ret.value[1].chunk_type = "file"
              /\ ret.value[1].content = DecodeReplace(source_bytes)
              /\ Len(ret.value[1].content) =
                    Len(source_bytes)
                    - Cardinality({i \in 1..Len(source_bytes) : IsLead2(source_bytes[i])
                                     /\ i < Len(source_bytes)
                                     /\ IsCont(source_bytes[i + 1])})

C9_Witness ==
    /\ Returned
    /\ \A k \in 1..Len(Children) : ~Allowed(k)
    /\ ~ValidUtf8(source_bytes)
    /\ \E i \in 1..Len(ret.value[1].content) :
          ret.value[1].content[i] = ReplacementChar

\* C10: parent_id is None in every chunk, in every state and in the result.
C10_NoParent ==
    /\ \A i \in 1..Len(chunks) : chunks[i].parent_id = None
    /\ Returned => \A i \in 1..Len(ret.value) : ret.value[i].parent_id = None

C10_Witness ==
    /\ Returned
    /\ Len(ret.value) = 2
    /\ ret.value[2].parent_id = None

\* the nodes at depth 2 or more: the descendants of the root's direct children
NestedNodes == Preorder(Flatten([k \in 1..Len(Children) |-> Children[k].children]))

SpanBytes(node) == Slice(source_bytes, node.start_byte, node.end_byte)

\* a nested node that would be chunked were it a direct child of the root
NestedCandidate(d) ==
    /\ d.type \in interesting_node_types
    /\ ValidUtf8(SpanBytes(d))
    /\ StrippedLen(DecodeReplace(SpanBytes(d))) >= 5

\* C11: only direct children of the root are visited: the i-th chunk is the
\* chunk of the i-th qualifying direct child, node chunks never outnumber the
\* direct children, and no nested node, however large, has a chunk of its own.
C11_ShallowTraversal ==
    /\ ~HasFileChunk(chunks) =>
          LET q == QualifyingChildren
          IN  /\ Len(chunks) <= Len(q)
              /\ Len(q) <= Len(Children)
              /\ \A i \in 1..Len(chunks) :
                    /\ FromChild(chunks[i], q[i])
                    /\ chunks[i].line_end = Children[q[i]].end_point[1] + 1
    /\ \A j \in 1..Len(NestedNodes) :
          NestedCandidate(NestedNodes[j]) =>
             ~\E i \in 1..Len(chunks) :
                 /\ chunks[i].chunk_type = NestedNodes[j].type
                 /\ EncodeUtf8(chunks[i].content) = SpanBytes(NestedNodes[j])

C11_Witness ==
    /\ Returned
    /\ Len(Children) = 2
    /\ Len(ret.value) = 2
    /\ Cardinality({j \in 1..Len(NestedNodes) : NestedCandidate(NestedNodes[j])}) >= 2

\* the bytes of "foo"
FooBytes == <<102, 111, 111>>

\* C12: a file that is one local_function node with a name child "foo" gives
\* one chunk of type local_function, metadata.name "foo", lines 1 to 1.
C12_LocalFunctionNamed ==
    (/\ Returned
     /\ Len(Children) = 1
     /\ Children[1].type = "local_function"
     /\ NodeBytes(1) = source_bytes
     /\ \E j \in 1..Len(Children[1].children) :
           /\ Children[1].children[j].type = "name"
           /\ SpanBytes(Children[1].children[j]) = FooBytes)
    => /\ Len(ret.value) = 1
       /\ ret.value[1].chunk_type = "local_function"
       /\ ret.value[1].line_start = 1
       /\ ret.value[1].line_end = 1
       /\ "name" \in DOMAIN ret.value[1].metadata
       /\ ret.value[1].metadata.name = DecodeReplace(FooBytes)

\* every allow-listed direct child decodes and is under the threshold, and
\* there is at least one
AllBelowThreshold ==
    /\ \E k \in 1..Len(Children) : Allowed(k)
    /\ \A k \in 1..Len(Children) :
          Allowed(k) => /\ ValidUtf8(NodeBytes(k))
                        /\ StrippedLen(DecodeReplace(NodeBytes(k))) < 5

\* C13: when every allow-listed direct child is under the size threshold the
\* result is the single "file" chunk holding the whole buffer, however short
\* that is.
C13_FallbackWhenAllSmall ==
    AllBelowThreshold =>
        /\ pc # "raised"
        /\ \A i \in 1..Len(chunks) : chunks[i].chunk_type = "file"
        /\ Returned =>
              /\ Len(ret.value) = 1
              /\ ret.value[1].chunk_type = "file"
              /\ ret.value[1].content = DecodeReplace(source_bytes)
              /\ ValidUtf8(source_bytes) =>
                    EncodeUtf8(ret.value[1].content) = source_bytes

C13_Witness ==
    /\ Returned
    /\ AllBelowThreshold
    /\ Len(Children) = 1
    /\ Len(ret.value[1].content) = 4
    /\ StrippedLen(ret.value[1].content) = 3

\* the qualifying direct children are exactly two function definitions
TwoFunctions ==
    LET q == QualifyingChildren
    IN  /\ Len(q) = 2
        /\ Children[q[1]].type = "function_definition"
        /\ Children[q[2]].type = "function_definition"

LineFeedsBefore(off) == Cardinality({i \in 1..off : source_bytes[i] = 10})

\* C14, as claimed: two top-level function definitions give two chunks, ids 1
\* and 2 in source order, with disjoint line ranges.
C14_DisjointLineRanges ==
    (Returned /\ TwoFunctions) =>
        /\ Len(ret.value) = 2
        /\ ret.value[1].id = 1
        /\ ret.value[2].id = 2
        /\ FromChild(ret.value[1], QualifyingChildren[1])
        /\ FromChild(ret.value[2], QualifyingChildren[2])
        /\ ret.value[1].line_end < ret.value[2].line_start

\* C14, amended: two chunks, ids 1 and 2 in source order, each with the lines
\* of its node; the first range ends no later than the second starts, and the
\* two are disjoint exactly when a line feed separates the two functions.
C14_OrderedLineRanges ==
    (Returned /\ TwoFunctions) =>
        LET q == QualifyingChildren
            a == Children[q[1]]
            b == Children[q[2]]
        IN  /\ Len(ret.value) = 2
            /\ ret.value[1].id = 1
            /\ ret.value[2].id = 2
            /\ FromChild(ret.value[1], q[1])
            /\ FromChild(ret.value[2], q[2])
            /\ ret.value[1].line_start = 1 + LineFeedsBefore(a.start_byte)
            /\ ret.value[1].line_end = 1 + LineFeedsBefore(a.end_byte)
            /\ ret.value[2].line_start = 1 + LineFeedsBefore(b.start_byte)
            /\ ret.value[2].line_end = 1 + LineFeedsBefore(b.end_byte)
            /\ ret.value[1].line_end <= ret.value[2].line_start
            /\ (ret.value[1].line_end < ret.value[2].line_start)
                  <=> (\E i \in (a.end_byte + 1)..b.start_byte : source_bytes[i] = 10)

C14_Witness ==
    /\ Returned
    /\ TwoFunctions
    /\ ret.value[1].line_start < ret.value[1].line_end
    /\ ret.value[1].line_end = ret.value[2].line_start

\* the vocabulary of chunk types of the specification
ChunkTypeVocabulary ==
    {"function_definition", "table_constructor", "variable_declaration",
     "assignment_statement", "comment", "if_statement", "for_statement",
     "while_statement", "repeat_statement", "do_statement", "local_function"}

\* C18: every chunk type is one of the allow-listed tags or "file", and a
\* direct child of another type never becomes a chunk.
C18_ChunkTypes ==
    /\ \A i \in 1..Len(chunks) :
          chunks[i].chunk_type \in ChunkTypeVocabulary \cup {"file"}
    /\ \A k \in 1..Len(Children) :
          Children[k].type \notin ChunkTypeVocabulary =>
             ~\E i \in 1..Len(chunks) :
                 chunks[i].chunk_type # "file" /\ FromChild(chunks[i], k)
    /\ Returned => \A i \in 1..Len(ret.value) :
          ret.value[i].chunk_type \in ChunkTypeVocabulary \cup {"file"}

C18_Witness ==
    /\ Returned
    /\ Len(ret.value) = 1
    /\ ret.value[1].chunk_type # "file"
    /\ \E k \in 1..Len(Children) :
          /\ Children[k].type \notin ChunkTypeVocabulary
          /\ ValidUtf8(NodeBytes(k))
          /\ StrippedLen(DecodeReplace(NodeBytes(k))) >= 5

\* C19: the result lists the qualifying direct children in traversal order,
\* each once: the i-th chunk is the chunk of the i-th qualifying child, and
\* ids grow along the list.
C19_TraversalOrder ==
    (Returned /\ ~HasFileChunk(ret.value)) =>
        LET q == QualifyingChildren
        IN  /\ Len(ret.value) = Len(q)
            /\ \A i \in 1..Len(ret.value) :
                  /\ FromChild(ret.value[i], q[i])
                  /\ ret.value[i].line_end = Children[q[i]].end_point[1] + 1
            /\ \A i, j \in 1..Len(ret.value) :
                  i < j => ret.value[i].id < ret.value[j].id

C19_Witness ==
    /\ Returned
    /\ Len(ret.value) = 2
    /\ ret.value[1].chunk_type = "comment"
    /\ ret.value[2].chunk_type = "function_definition"

\* the positions of the immediate children of a node that are names
NameKids(node) == {j \in 1..Len(node.children) : node.children[j].type = "name"}

\* C20: the metadata of a function-definition chunk has the text of the first
\* immediate name child as `name`, and no `name` when no immediate child is a
\* name.
C20_FirstNameWins ==
    ~HasFileChunk(chunks) =>
        LET q == QualifyingChildren
        IN  \A i \in 1..Len(chunks) :
               (i <= Len(q) /\ Children[q[i]].type = "function_definition") =>
                  LET node == Children[q[i]]
                      at == NameKids(node)
                  IN  IF at = {}
                      THEN DOMAIN chunks[i].metadata = {"node_type"}
                      ELSE /\ DOMAIN chunks[i].metadata = {"node_type", "name"}
                           /\ EncodeUtf8(chunks[i].metadata.name) =
                                 SpanBytes(node.children[
                                    CHOOSE j \in at : \A l \in at : j <= l])

C20_Witness ==
    /\ Returned
    /\ Len(ret.value) = 2
    /\ Cardinality(NameKids(Children[1])) = 2
    /\ NameKids(Children[2]) = {}
    /\ \E j \in 1..Len(NestedNodes) : NestedNodes[j].type = "name"
    /\ "name" \in DOMAIN ret.value[1].metadata
    /\ "name" \notin DOMAIN ret.value[2].metadata

\* C17: a chunk, once in the list, keeps every field and gains none, during
\* the extraction and during store_chunks.
C17_ChunksNeverMutated ==
    [][/\ \A i \in 1..Len(chunks) :
            Len(chunks') >= i /\ chunks'[i] = chunks[i]
       /\ Returned =>
            \A i \in 1..Len(ret.value) :
               Len(ret'.value) >= i /\ ret'.value[i] = ret.value[i]]_vars

\* The chunk sequence of a file, stated from its bytes and its tree: one chunk
\* per qualifying direct child of the root, in order, or the single "file"
\* chunk when none qualifies.
QualifiesIn(src, node) ==
    LET bytes == Slice(src, node.start_byte, node.end_byte)
    IN  /\ node.type \in ChunkTypeVocabulary
        /\ ValidUtf8(bytes)
        /\ StrippedLen(DecodeReplace(bytes)) >= 5

RECURSIVE QualifyingOf(_, _, _)
QualifyingOf(src, kids, n) ==
    IF n = 0 THEN <<>>
    ELSE IF QualifiesIn(src, kids[n]) THEN Append(QualifyingOf(src, kids, n - 1), n)
    ELSE QualifyingOf(src, kids, n - 1)

LineOf(src, off) == 1 + Cardinality({i \in 1..off : src[i] = 10})

ExpectedChunks(path, src, root) ==
    LET kids == root.children
        q == QualifyingOf(src, kids, Len(kids))
    IN  IF q = <<>>
        THEN <<[id |-> 1, file_path |-> path, chunk_type |-> "file",
                content |-> DecodeReplace(src),
                metadata |-> [node_type |-> "file"],
                line_start |-> 1, line_end |-> LineOf(src, Len(src)),
                parent_id |-> None]>>
        ELSE [i \in 1..Len(q) |->
                [id |-> i, file_path |-> path, chunk_type |-> kids[q[i]].type,
                 content |-> DecodeReplace(Slice(src, kids[q[i]].start_byte,
                                                 kids[q[i]].end_byte)),
                 metadata |-> get_node_metadata(kids[q[i]], src).value,
                 line_start |-> LineOf(src, kids[q[i]].start_byte),
                 line_end |-> LineOf(src, kids[q[i]].end_byte),
                 parent_id |-> None]]

\* the single call returns the expected sequence
SingleCallExpected ==
    Returned => ret.value = ExpectedChunks(file_path, source_bytes, root_node)

ReturnedOf(p) == inv[p].ret.kind = "value"

C16_NoInterference ==
    \A p \in Procs :
       /\ \A i \in 1..Len(inv[p].chunks) :
             /\ inv[p].chunks[i].file_path = inv[p].file_path
             /\ inv[p].chunks[i].id = i
       /\ Len(inv[p].chunks) <= Len(inv[p].root_node.children) + 1
       /\ ReturnedOf(p) =>
             /\ inv[p].ret.value =
                   ExpectedChunks(inv[p].file_path, inv[p].source_bytes,
                                  inv[p].root_node)
             /\ \A i \in 1..Len(inv[p].ret.value) :
                   /\ inv[p].ret.value[i].file_path = inv[p].file_path
                   /\ inv[p].ret.value[i].id = i

C16_Witness ==
    /\ inv[1].file_path # inv[2].file_path
    /\ ReturnedOf(1)
    /\ Len(inv[1].ret.value) = 2
    /\ inv[2].pc = "return"
    /\ Len(inv[2].chunks) = 1
    /\ inv[2].chunks[1].chunk_type = "file"

\* the texts of the identifier children of the variable-list children of a
\* node, in child order
RECURSIVE IdentTextsFrom(_, _, _)
IdentTextsFrom(node, i, j) ==
    IF i > Len(node.children) THEN <<>>
    ELSE IF node.children[i].type # "variable_list"
            \/ j > Len(node.children[i].children)
         THEN IdentTextsFrom(node, i + 1, 1)
    ELSE LET kid == node.children[i].children[j]
         IN  (IF kid.type = "identifier"
              THEN <<DecodeReplace(SpanBytes(kid))>> ELSE <<>>)
             \o IdentTextsFrom(node, i, j + 1)

IdentTexts(node) == IdentTextsFrom(node, 1, 1)

\* C21: the metadata of a variable-declaration chunk has as `names` the texts
\* of the identifier children of its variable-list children, in child order,
\* and has no `names` at all when there is none; `names` is never empty.
C21_DeclaredNames ==
    /\ \A i \in 1..Len(chunks) :
          "names" \in DOMAIN chunks[i].metadata => chunks[i].metadata.names # <<>>
    /\ ~HasFileChunk(chunks) =>
         LET q == QualifyingChildren
         IN  \A i \in 1..Len(chunks) :
                (i <= Len(q) /\ Children[q[i]].type = "variable_declaration") =>
                   LET texts == IdentTexts(Children[q[i]])
                   IN  IF texts = <<>>
                       THEN "names" \notin DOMAIN chunks[i].metadata
                       ELSE /\ "names" \in DOMAIN chunks[i].metadata
                            /\ chunks[i].metadata.names = texts

C21_Witness ==
    /\ Returned
    /\ Len(ret.value) = 2
    /\ ret.value[1].chunk_type = "variable_declaration"
    /\ ret.value[2].chunk_type = "variable_declaration"
    /\ "names" \in DOMAIN ret.value[1].metadata
    /\ Len(ret.value[1].metadata.names) = 2
    /\ "names" \notin DOMAIN ret.value[2].metadata
    /\ \E j \in 1..Len(Children[2].children) :
          Children[2].children[j].type = "identifier"

C26_NeverEmpty ==
    /\ Returned => Len(ret.value) >= 1
    /\ pc = "return" => Len(chunks) >= 1
    /\ pc # "no_chunks"
    /\ pc \in {"store", "store_raised", "stored"} => Returned /\ store_idx >= 1

C26_Witness ==
    /\ source_bytes = <<>>
    /\ Returned
    /\ pc = "store"
    /\ store_idx = 1
    /\ Len(ret.value) = 1

\* the rows of the chunks among the first n that carry an embedding, in order
RECURSIVE EmbeddedRows(_, _)
EmbeddedRows(cs, n) ==
    IF n = 0 THEN <<>>
    ELSE IF "embedding" \in DOMAIN cs[n]
         THEN Append(EmbeddedRows(cs, n - 1),
                     [file_path |-> cs[n].file_path,
                      chunk_type |-> cs[n].chunk_type,
                      content |-> cs[n].content,
                      meta_data |-> cs[n].metadata,
                      embedding |-> cs[n].embedding,
                      line_start |-> cs[n].line_start,
                      line_end |-> cs[n].line_end,
                      parent_id |-> cs[n].parent_id])
    ELSE EmbeddedRows(cs, n - 1)

InStore == pc \in {"store", "stored", "store_raised"}

\* C27, as claimed: whatever fails, the rows inserted are exactly the chunks
\* that got an embedding, one row each, in sequence order.
C27_RowsAreEmbeddedChunks ==
    InStore => rows = EmbeddedRows(ret.value, Len(ret.value))

\* C27, amended: a failed embedding skips its chunk and the loop goes on; up
\* to an uncaught error of the insert or commit, the rows are exactly the
\* chunks handled so far that got an embedding, in order, each committed
\* before the next chunk is handled; such an error ends the loop at a chunk
\* that has its embedding and no row.
C27_RowsUntilDatabaseError ==
    InStore =>
        /\ rows = EmbeddedRows(ret.value, store_idx - 1)
        /\ \A i \in 1..Len(rows) : rows[i].embedding = EmbeddingOf(rows[i].content)
        /\ pc = "stored" => store_idx = Len(ret.value) + 1
        /\ pc \in {"store", "stored"} =>
              \A i \in store_idx..Len(ret.value) : "embedding" \notin DOMAIN ret.value[i]
        /\ pc = "store_raised" =>
              /\ store_idx <= Len(ret.value)
              /\ "embedding" \in DOMAIN ret.value[store_idx]
              /\ \A i \in (store_idx + 1)..Len(ret.value) :
                    "embedding" \notin DOMAIN ret.value[i]

C27_Witness ==
    /\ pc = "stored"
    /\ Len(ret.value) = 2
    /\ "embedding" \notin DOMAIN ret.value[1]
    /\ "embedding" \in DOMAIN ret.value[2]
    /\ Len(rows) = 1
    /\ rows[1].content = ret.value[2].content

\* the positions of the user messages of the request, and the last of them
UserAt == {i \in 1..Len(mw.messages) : mw.messages[i].role = "user"}
LastUser == CHOOSE i \in UserAt : \A j \in UserAt : j <= i

\* the text mentions the keyword somewhere, whatever the case of its letters
Mentions(text, keyword) ==
    \E off \in 0..(Len(text) - Len(keyword)) :
       \A j \in 1..Len(keyword) :
          (IF text[off + j] \in 65..90 THEN text[off + j] + 32 ELSE text[off + j])
             = keyword[j]

\* the last user message of the request has a text that mentions a keyword
LastUserIsDcs ==
    /\ UserAt # {}
    /\ "content" \in DOMAIN mw.messages[LastUser]
    /\ \E k \in 1..Len(dcs_keywords) :
          Mentions(mw.messages[LastUser].content, dcs_keywords[k])

Enhanced == mw.rag_outcome = "ok"

\* C23, as claimed: an enhanced request is forwarded with the content of its
\* last user message replaced by the prompt and every other message, earlier
\* user messages with the same content included, unchanged and in place.
C23_OnlyLastUserReplaced ==
    (Enhanced /\ mw.pc = "done") =>
        LET sent == mw.ollama_calls[1]
        IN  /\ Len(sent) = Len(mw.messages)
            /\ sent[LastUser].role = "user"
            /\ sent[LastUser].content # mw.messages[LastUser].content
            /\ \A i \in 1..Len(sent) : i # LastUser => sent[i] = mw.messages[i]

\* C24: when the last user message mentions no keyword, or there is no user
\* message, the RAG endpoint is never called and the request is forwarded
\* once, with the message list as received.
C24_NoEnhancement ==
    ~LastUserIsDcs =>
        /\ mw.rag_calls = <<>>
        /\ mw.pc # "rag"
        /\ mw.data_messages = mw.messages
        /\ Len(mw.ollama_calls) <= 1
        /\ mw.pc = "done" => mw.ollama_calls = <<mw.messages>>

C24_Witness ==
    /\ mw.pc = "done"
    /\ Len(mw.messages) = 3
    /\ UserAt = {1, 3}
    /\ GetContent(mw.messages[1]) = Some(<<83,112,97,119,110>>)
    /\ GetContent(mw.messages[3]) = Some(<<104,105>>)
    /\ mw.ollama_calls = <<mw.messages>>
    /\ mw.response = "ollama"

\* C29: when the RAG call fails (a status other than 200, an exception, an
\* answer without `prompt`), the proxy does not answer before it has
\* forwarded the request, once, with the message list as received.
RagFailed == mw.rag_outcome \in {"non_200", "raises", "no_prompt"}

C29_RagFailureForwardsOriginal ==
    /\ mw.rag_outcome # "none" => Len(mw.rag_calls) = 1 /\ LastUserIsDcs
    /\ RagFailed =>
         /\ mw.pc \in {"forward", "done"}
         /\ mw.data_messages = mw.messages
         /\ mw.pc = "forward" => mw.ollama_calls = <<>> /\ mw.response = "pending"
         /\ mw.pc = "done" => mw.ollama_calls = <<mw.messages>>

C29_Witness ==
    /\ mw.rag_outcome = "no_prompt"
    /\ mw.pc = "done"
    /\ mw.response = "ollama"
    /\ Len(mw.messages) = 2
    /\ mw.ollama_calls = <<mw.messages>>

\* the files launched so far, in launch order
LaunchedFiles == [k \in 1..Len(bp.launched) |-> bp.launched[k].file_path]

\* the positions of the file named by --continue-from in the filtered list
ContinueAt ==
    IF bp.continue_from = None THEN {}
    ELSE {k \in 1..Len(bp.all_files) : bp.all_files[k] = bp.continue_from[1]}

\* the suffix of the filtered list from the first occurrence of the named
\* file, the whole list when the file does not occur
ExpectedSuffix ==
    IF ContinueAt = {} THEN bp.all_files
    ELSE LET first == CHOOSE k \in ContinueAt : \A l \in ContinueAt : k <= l
         IN  [k \in 1..(Len(bp.all_files) - first + 1) |-> bp.all_files[first + k - 1]]

IsPrefix(a, b) == Len(a) <= Len(b) /\ \A k \in 1..Len(a) : a[k] = b[k]

\* C25: the list handed to process_batch is the suffix of the filtered list
\* that starts at the first occurrence of the --continue-from file, or the
\* whole list when the file is not in it; files are launched along that list
\* and, for a batch size of at least 1, all of it is covered.
C25_ContinueFromSuffix ==
    /\ bp.pc # "main" => bp.files = ExpectedSuffix
    /\ IsPrefix(LaunchedFiles, ExpectedSuffix)
    /\ (bp.pc = "done" /\ bp.batch_size >= 1) => LaunchedFiles = ExpectedSuffix

C25_Witness ==
    /\ bp.pc = "done"
    /\ Len(bp.all_files) = 3
    /\ ContinueAt = {2}
    /\ LaunchedFiles = <<bp.all_files[2], bp.all_files[3]>>

\* the batches partition the list: concatenated they give it back, none is
\* empty and none is longer than the batch size
BatchesPartition ==
    /\ Flatten(bp.batches) = bp.files
    /\ \A k \in 1..Len(bp.batches) :
          Len(bp.batches[k]) >= 1 /\ Len(bp.batches[k]) <= bp.batch_size

\* C30, as claimed: when process_batch is over, every file of its list has
\* been launched once, in list order, in batches that partition the list.
C30_EveryFileLaunchedOnce ==
    bp.pc \in {"done", "failed"} =>
        /\ LaunchedFiles = bp.files
        /\ BatchesPartition

\* for a batch size of at least 1 it is so, whatever the outcomes
LaunchedOnceWhenPositive ==
    (bp.pc = "done" /\ bp.batch_size >= 1) =>
        /\ LaunchedFiles = bp.files
        /\ BatchesPartition

\* C28: once the loop of process_lua_files runs, the files attempted are the
\* files of the list before the current one, each once and in list order,
\* whatever failed for them; when the loop ends every file has been
\* attempted, and a failed file is followed by the attempt of the next.
C28_EveryFileAttempted ==
    /\ plf.pc \in {"loop", "done", "failed"} =>
         /\ plf.attempts = SubSeq(plf.lua_files, 1, plf.idx - 1)
         /\ IsPrefix(plf.attempts, plf.lua_files)
    /\ plf.pc \in {"done", "failed"} => plf.attempts = plf.lua_files
    /\ plf.pc = "loop" =>
         \A k \in 1..Len(plf.errors) :
            \E i \in 1..(plf.idx - 1) : plf.lua_files[i] = plf.errors[k].file_path

C28_Witness ==
    /\ plf.pc = "done"
    /\ Len(plf.lua_files) = 3
    /\ plf.errors = <<[file_path |-> plf.lua_files[1], outcome |-> "chunk_raised"],
                     [file_path |-> plf.lua_files[2], outcome |-> "store_raised"]>>
    /\ plf.attempts = plf.lua_files

====
